---- MODULE Spec2Model ----
(***************************************************************************)
(* Model of the AWS Service Report Generator (src/src/index.js handler and *)
(* src/src/archiveManager.js).  One run of the Lambda handler is a process *)
(* whose position is pc; every await of the handler is a step.  The S3     *)
(* bucket, the SNS topic and the source documents are the environment:     *)
(* each call to them succeeds or fails nondeterministically.               *)
(***************************************************************************)
EXTENDS Integers, Sequences, FiniteSets, TLC

\* ------------------------------------------------------------------ bounds
MaxStored == 2     \* archive objects already in the bucket before a run
MaxListed == 4     \* objects listed when the sweep is invoked on its own
MaxServices == 2   \* service codes in the primary document
MaxNames == 2      \* entries of the secondary (service names) document
Now == 10          \* the clock reading of the run, in days
MaxMapped == 2     \* region keys of a coverage mapping
MaxRegions == 2    \* regions of the canonical model
MaxRendered == 3   \* services of the canonical model
MaxRuns == 2       \* invocations of the handler, one after the other
MaxClock == 1500   \* the last clock reading, in milliseconds
MaxColumns == 27   \* region columns of a wide coverage matrix

\* ------------------------------------------------------- program constants
maxRetries == 3
DefaultRetentionDays == 7

\* ------------------------------------------------------------ input sets
Ages == {1, 5, 7, 8, 10}
StoredAges == {5, 8}
RetentionChoices == {1, DefaultRetentionDays}
Codes == {"ec2", "s3"}
NameCodes == {"ec2", "EC2"}
Names == {"", "Amazon EC2"}
ReadFailures == {"NoSuchKey", "SyntaxError", "NetworkingError"}

SeqsUpTo(S, n) == UNION {[1..k -> S] : k \in 0..n}

RECURSIVE SelectIdx(_, _, _)
\* the subsequence of s whose elements satisfy Test, in order
SelectIdx(s, Test(_), i) ==
  IF i > Len(s) THEN << >>
  ELSE IF Test(s[i]) THEN <<s[i]>> \o SelectIdx(s, Test, i + 1)
       ELSE SelectIdx(s, Test, i + 1)

\* ------------------------------------------------------------------ state
VARIABLES
  pc,                       \* position of the handler / of the sweep
  config,                   \* archiveRetentionDays, distribution configured
  bucket,                   \* source bucket: primary and secondary document
  reads,                    \* outcome of each source read, "" before it
  store,                    \* report bucket: latest object and archive objects
  sourceData,               \* parsed primary document
  servicesWithNames,        \* result of readServicesData
  services,                 \* enriched {code, name} list
  normalizedData,           \* the argument of generateExcelReport
  workbook,                 \* the four sheets generateExcelReport built
  excelBuffer,              \* TRUE once generateExcelReport returned a buffer
  upload,                   \* uploadToS3 locals: key, attempt, puts, delays
  reportMetadata,           \* uploadReports result plus Step 5/6 fields
  archiveManagementWarning, \* message of a failed sweep, "" for null
  sweep,                    \* manageArchiveRetention locals and result
  notifications,            \* notification sends attempted, in order
  response,                 \* the handler's return value
  error,                    \* the error caught by the handler's catch
  log,                      \* stages started, in order
  clock,                    \* the time of day, in milliseconds
  runs                      \* the invocations that returned, in order

vars == <<pc, config, bucket, reads, store, sourceData, servicesWithNames, services,
          normalizedData, workbook, excelBuffer, upload, reportMetadata, archiveManagementWarning,
          sweep, notifications, response, error, log, clock, runs>>

NoError == [message |-> "", name |-> "", stage |-> ""]
\* sourceData.servicesByRegion: absent, or an object whose region entries sit
\* directly in it or one level down under byRegion; an entry is a plain array
\* of codes, an object wrapping the array under services, or something else
NoMapping == [present |-> FALSE,
              byRegion |-> [present |-> FALSE, entries |-> << >>],
              entries |-> << >>]
Mapping(nested, e) ==
  [present |-> TRUE,
   byRegion |-> [present |-> nested, entries |-> IF nested THEN e ELSE << >>],
   entries |-> IF nested THEN << >> ELSE e]
RawEntry(region, shape, codes) ==
  [region |-> region, shape |-> shape, codes |-> codes]

NoSource == [loaded |-> FALSE, metadata |-> FALSE, timestamp |-> "",
             regions |-> FALSE,
             services |-> FALSE, serviceCodes |-> << >>,
             regionList |-> << >>, servicesByRegion |-> NoMapping]
\* normalizedData before Step 3, and the workbook before it is built
NoModel == [built |-> FALSE, timestamp |-> "",
            regions |-> << >>, services |-> << >>,
            servicesByRegion |-> [defined |-> FALSE, entries |-> << >>]]
NoWorkbook == [built |-> FALSE,
               summary |-> [reportGenerated |-> "", dataTimestamp |-> "",
                           totalRegions |-> 0, totalServices |-> 0,
                           na |-> FALSE, total |-> 0],
               regions |-> << >>, services |-> << >>,
               coverage |-> [placeholder |-> FALSE, message |-> "",
                             alignment |-> "", headers |-> << >>,
                             autoFilter |-> [from |-> "", to |-> ""],
                             rows |-> << >>]]
NoUpload == [key |-> "", attempt |-> 0, archiveFileName |-> 0, namedAt |-> 0,
             puts |-> [k \in {"latest", "archive"} |-> 0],
             delays |-> [k \in {"latest", "archive"} |-> << >>],
             done |-> [k \in {"latest", "archive"} |-> FALSE]]
NoSweep == [objects |-> << >>, expiredObjects |-> << >>,
            retainedObjects |-> << >>, idx |-> 0, deletedCount |-> 0,
            deleteAttempts |-> << >>, listed |-> FALSE,
            status |-> "", retained |-> 0, deleted |-> 0]
NoDistribution == [set |-> FALSE, distributed |-> FALSE, reason |-> "",
                   error |-> ""]
NoMetadata == [uploaded |-> FALSE, distributionResult |-> NoDistribution,
               retentionSet |-> FALSE,
               archivedReportsRetained |-> [tag |-> "unset", n |-> 0],
               archivedReportsDeleted |-> 0]
NoMetrics == [set |-> FALSE, regionCount |-> 0, serviceCount |-> 0,
              serviceMappingCount |-> 0, reportMetadata |-> NoMetadata]
NoResponse == [statusCode |-> 0, message |-> "", error |-> "",
               errorType |-> "", metrics |-> NoMetrics]

\* an archive object as S3 lists it
\* (run: the invocation that wrote it, 0 for one stored before the first)
ArchiveObject(k, age) == [Key |-> k, LastModified |-> Now - age, run |-> 0]

\* the archive prefix holding the objects of the given ages
StoredArchive(ages) == [i \in 1..Len(ages) |-> ArchiveObject(i, ages[i])]

\* ------------------------------------------------------- the input documents
\* an object of the source bucket: absent, not JSON, or a parsed document
AbsentObject == [kind |-> "absent", doc |-> NoSource, names |-> << >>,
                 hasServices |-> FALSE]
MalformedObject == [kind |-> "malformed", doc |-> NoSource, names |-> << >>,
                    hasServices |-> FALSE]

\* metadata.timestamp of the primary document, as the exporter writes it
DataTimestamp == "2025-10-01T12:00:00.000Z"

\* a primary document: which top-level fields are present, the service
\* codes when the services container is present, the regions when the
\* regions container is present, and the coverage mapping
PrimaryDocument(m, r, s, c, rl, sbr) ==
  [kind |-> "json",
   doc |-> [loaded |-> TRUE, metadata |-> m,
            timestamp |-> IF m THEN DataTimestamp ELSE "",
            regions |-> r, services |-> s,
            serviceCodes |-> IF s THEN c ELSE << >>,
            regionList |-> IF r THEN rl ELSE << >>,
            servicesByRegion |-> sbr],
   names |-> << >>, hasServices |-> FALSE]

Region(code) == [code |-> code]
TwoRegions == <<Region("us-east-1"), Region("eu-west-1")>>

PrimaryObject(m, r, s, c) == PrimaryDocument(m, r, s, c, TwoRegions, NoMapping)

\* the mapping of the design document's example, nested under byRegion,
\* with one entry of each accepted shape
ExampleMapping ==
  Mapping(TRUE, <<RawEntry("us-east-1", "wrapped", <<"s3", "ec2", "lambda">>),
                  RawEntry("eu-west-1", "array", <<"s3">>)>>)

\* a secondary document {services: [{code, name}]}; services is optional
SecondaryObject(present, entries) ==
  [kind |-> "json", doc |-> NoSource,
   names |-> IF present THEN entries ELSE << >>, hasServices |-> present]

NameEntries == [code : NameCodes, name : Names]

\* the documents of the runs of the whole handler
HandlerPrimary ==
  {AbsentObject, MalformedObject}
  \cup {PrimaryDocument(m, r, s, <<"ec2", "s3">>, TwoRegions, sbr) :
          m \in BOOLEAN, r \in BOOLEAN, s \in BOOLEAN,
          sbr \in {NoMapping, ExampleMapping}}
HandlerSecondary ==
  {AbsentObject, MalformedObject, SecondaryObject(FALSE, << >>),
   SecondaryObject(TRUE, <<[code |-> "ec2", name |-> "Amazon EC2"]>>)}

\* the documents of the reading and normalization stages on their own
AnyPrimary ==
  {AbsentObject, MalformedObject}
  \cup {PrimaryObject(m, r, s, c) :
          m \in BOOLEAN, r \in BOOLEAN, s \in BOOLEAN,
          c \in SeqsUpTo(Codes, MaxServices)}
AnySecondary ==
  {AbsentObject, MalformedObject, SecondaryObject(FALSE, << >>)}
  \cup {SecondaryObject(TRUE, e) : e \in SeqsUpTo(NameEntries, MaxNames)}

\* the coverage mappings of the normalization stage on its own: region keys
\* are distinct, in insertion order
MappedRegions == {"us-east-1", "eu-west-1", "ap-south-1"}
CodeLists == {<< >>, <<"s3">>, <<"s3", "ec2", "lambda">>, <<"ec2", "ec2">>}
EntryShapes == {"array", "wrapped", "other"}
DistinctRegions(e) ==
  \A i \in 1..Len(e) : \A j \in 1..Len(e) : e[i].region = e[j].region => i = j
RawEntries ==
  {e \in SeqsUpTo([region : MappedRegions, shape : EntryShapes,
                   codes : CodeLists], MaxMapped) : DistinctRegions(e)}
AnyMapping ==
  {NoMapping} \cup {Mapping(n, e) : n \in BOOLEAN, e \in RawEntries}
MappedPrimary ==
  {PrimaryDocument(TRUE, TRUE, TRUE, <<"ec2", "s3">>, TwoRegions, sbr) :
     sbr \in AnyMapping}

\* the canonical models the handler can hand to generateExcelReport: the
\* services are {code, name} records, servicesByRegion is always an object
RegionRecords == {Region("us-east-1"), Region("eu-west-1")}
\* launch dates: none, an ISO text, a text that is no date
LaunchDates == {"", "2016-10-17T12:00:00Z", "TBD"}
DatedRegionRecords ==
  {Region("eu-west-1")}
  \cup {[code |-> "us-east-1", launchDate |-> d] : d \in LaunchDates}
ServiceRecords ==
  {[code |-> "ec2", name |-> "Amazon EC2"], [code |-> "EC2", name |-> "amazon ec2"],
   [code |-> "lambda", name |-> "AWS Lambda"], [code |-> "s3", name |-> "s3"]}
FewServices ==
  {<< >>, <<[code |-> "ec2", name |-> "Amazon EC2"]>>,
   <<[code |-> "s3", name |-> "s3"], [code |-> "ec2", name |-> "Amazon EC2"],
     [code |-> "lambda", name |-> "AWS Lambda"]>>}
NormalEntries ==
  {e \in SeqsUpTo([region : MappedRegions, codes : CodeLists], MaxMapped) :
     DistinctRegions(e)}
ExampleEntries ==
  <<[region |-> "us-east-1", codes |-> <<"s3", "ec2", "lambda">>],
    [region |-> "eu-west-1", codes |-> <<"s3">>]>>
\* n regions with distinct codes
ManyRegions(n) == [i \in 1..n |-> Region("region-" \o ToString(i))]
Model(r, s, e) ==
  [built |-> TRUE, timestamp |-> DataTimestamp, regions |-> r, services |-> s,
   servicesByRegion |-> [defined |-> TRUE, entries |-> e]]
AnyModel ==
  {Model(r, s, e) : r \in SeqsUpTo(RegionRecords, MaxRegions),
                    s \in FewServices, e \in NormalEntries}
  \cup {Model(TwoRegions, s, e) : s \in SeqsUpTo(ServiceRecords, MaxRendered),
                                  e \in {<< >>, ExampleEntries}}
  \cup {Model(r, << >>, << >>) :
          r \in SeqsUpTo(DatedRegionRecords, MaxRegions)}
  \cup {Model(ManyRegions(n), <<[code |-> "s3", name |-> "s3"]>>,
               ExampleEntries) : n \in 0..MaxColumns}
  \cup {[Model(TwoRegions, s, ExampleEntries) EXCEPT !.timestamp = ""] :
          s \in FewServices}

\* ------------------------------------------------------------ readSourceData
\* s3Client.send(GetObject) and JSON.parse: "ok" or the name of the error
ReadOutcome(obj, netOk) ==
  IF ~netOk THEN "NetworkingError"
  ELSE IF obj.kind = "absent" THEN "NoSuchKey"
  ELSE IF obj.kind = "malformed" THEN "SyntaxError"
  ELSE "ok"

\* a parse failure is reported like any other failure of the read
ReadErrorMessage_merged(name) ==
  IF name = "NoSuchKey" THEN "Source file not found"
  ELSE "Failed to read source data from S3"

\* the message of the error readSourceData throws for an S3/parse error name
ReadErrorMessage(name) ==
  IF name = "NoSuchKey" THEN "Source file not found"
  ELSE IF name = "SyntaxError" THEN "Invalid JSON format in source file"
  ELSE "Failed to read source data from S3"

\* readServicesData: data.services || [] on success, [] when the read threw
ReadServicesResult(outcome, obj) ==
  IF outcome = "ok" /\ obj.hasServices THEN obj.names ELSE << >>

\* -------------------------------------------------- validation, enrichment
\* validation that looks at the two containers only
IsValidStructure_containers(doc) == doc.regions /\ doc.services

\* Step 2: the document passes validation
IsValidStructure(doc) == doc.metadata /\ doc.regions /\ doc.services

RECURSIVE ServiceMapGet(_, _, _)
\* serviceMap.get(code) after servicesWithNames.forEach(set): the name of
\* the last entry whose code is exactly code; found = FALSE for undefined
ServiceMapGet(swn, code, i) ==
  IF i = 0 THEN [found |-> FALSE, value |-> ""]
  ELSE IF swn[i].code = code THEN [found |-> TRUE, value |-> swn[i].name]
       ELSE ServiceMapGet(swn, code, i - 1)

\* JavaScript truthiness of a map lookup: undefined and "" are falsy
Truthy(v) == v.found /\ v.value # ""

\* bug: the fallback to the code is missing
DisplayName_nofallback(swn, code) == ServiceMapGet(swn, code, Len(swn)).value

\* name: serviceMap.get(code) || code
DisplayName(swn, code) ==
  LET v == ServiceMapGet(swn, code, Len(swn))
  IN IF Truthy(v) THEN v.value ELSE code

\* serviceCodes.map(code => ({code, name}))
EnrichServices(codes, swn) ==
  [i \in 1..Len(codes) |-> [code |-> codes[i],
                            name |-> DisplayName(swn, codes[i])]]

\* --------------------------------------- normalization of servicesByRegion
\* sourceData.servicesByRegion?.byRegion || sourceData.servicesByRegion || {}
ServicesByRegionRaw(doc) ==
  IF doc.servicesByRegion.present /\ doc.servicesByRegion.byRegion.present
  THEN doc.servicesByRegion.byRegion.entries
  ELSE IF doc.servicesByRegion.present
       THEN doc.servicesByRegion.entries
       ELSE << >>

\* only a plain array is copied
NormalizeEntry_arrayonly(regionData) ==
  IF regionData.shape = "array"
  THEN <<[region |-> regionData.region, codes |-> regionData.codes]>>
  ELSE << >>

\* the body of the forEach: a plain array is copied, an object with an array
\* under services is unwrapped, anything else leaves no entry
NormalizeEntry(regionData) ==
  IF regionData.shape = "array"
  THEN <<[region |-> regionData.region, codes |-> regionData.codes]>>
  ELSE IF regionData.shape = "wrapped"
       THEN <<[region |-> regionData.region, codes |-> regionData.codes]>>
       ELSE << >>

RECURSIVE NormalizeEntries(_, _)
\* Object.keys(servicesByRegionRaw).forEach(...), keys in insertion order
NormalizeEntries(raw, i) ==
  IF i > Len(raw) THEN << >>
  ELSE NormalizeEntry(raw[i]) \o NormalizeEntries(raw, i + 1)

\* the servicesByRegion handed to the renderer: always an object
NormalizeMapping(doc) ==
  [defined |-> TRUE, entries |-> NormalizeEntries(ServicesByRegionRaw(doc), 1)]

\* normalizedData = {metadata, regions, services, servicesByRegion}
NormalizedData(doc, svcs) ==
  [built |-> TRUE, timestamp |-> doc.timestamp,
   regions |-> doc.regionList, services |-> svcs,
   servicesByRegion |-> NormalizeMapping(doc)]

\* ------------------------------------------------------------ excelGenerator
\* a property read: undefined and '' are both falsy, so both are ""
Field(rec, f) == IF f \in DOMAIN rec THEN rec[f] ELSE ""

RECURSIVE FirstTruthy(_, _)
\* a || b || c || ''
FirstTruthy(vals, i) ==
  IF i > Len(vals) THEN ""
  ELSE IF vals[i] # "" THEN vals[i] ELSE FirstTruthy(vals, i + 1)

\* region.code || region.regionCode || region.RegionCode || ''
RegionCode(region) ==
  FirstTruthy(<<Field(region, "code"), Field(region, "regionCode"),
                Field(region, "RegionCode")>>, 1)

\* service.code || service.serviceCode || service.ServiceCode || ''
ServiceCode(service) ==
  FirstTruthy(<<Field(service, "code"), Field(service, "serviceCode"),
                Field(service, "ServiceCode")>>, 1)

\* service.name || service.serviceName || service.ServiceName || ''
ServiceName(service) ==
  FirstTruthy(<<Field(service, "name"), Field(service, "serviceName"),
                Field(service, "ServiceName")>>, 1)

\* sourceData.servicesByRegion || {}
MappingEntries(data) ==
  IF data.servicesByRegion.defined THEN data.servicesByRegion.entries
  ELSE << >>

RECURSIVE ServicesInRegion(_, _, _)
\* servicesByRegion[regionCode] || []
ServicesInRegion(entries, regionCode, i) ==
  IF i > Len(entries) THEN << >>
  ELSE IF entries[i].region = regionCode THEN entries[i].codes
       ELSE ServicesInRegion(entries, regionCode, i + 1)

RECURSIVE MappingTotal(_, _)
\* Object.keys(servicesByRegion).reduce((acc, region) => acc + length, 0)
MappingTotal(entries, i) ==
  IF i > Len(entries) THEN 0
  ELSE Len(entries[i].codes) + MappingTotal(entries, i + 1)

\* bug: the time of the run is shown to the millisecond
Instant_ms(t) == [day |-> Now, second |-> t, zone |-> "EST"]

\* new Date(): the instant of the run's clock, and new Date(text) of an ISO
\* text, in the zone America/New_York: the day, the second of the day and
\* the zone's abbreviation on that day
Instant(t) == [day |-> Now, second |-> t \div 1000, zone |-> "EST"]
ParseInstant(text) ==
  CASE text = DataTimestamp -> [day |-> 273, second |-> 28800, zone |-> "EDT"]

\* formatDateEST: 'YYYY-MM-DD HH:mm:ss EST|EDT', seconds resolution
FormatDateEST(date) ==
  ToString(date.day) \o " " \o ToString(date.second) \o " " \o date.zone

\* createSummarySheet: the 'Service-by-Region Mappings' value, 'N/A' when
\* servicesByRegion is falsy, and the two totals above it
SummarySheet(data) ==
  [reportGenerated |-> FormatDateEST(Instant(clock)),
   dataTimestamp |-> IF data.timestamp # ""
                     THEN FormatDateEST(ParseInstant(data.timestamp))
                     ELSE FormatDateEST(Instant(clock)),
   totalRegions |-> Len(data.regions),
   totalServices |-> Len(data.services),
   na |-> ~data.servicesByRegion.defined,
   total |-> IF data.servicesByRegion.defined
             THEN MappingTotal(data.servicesByRegion.entries, 1) ELSE 0]

\* every region is given the length of the first entry of the mapping
ServiceCount_first(data, region) ==
  IF MappingEntries(data) = << >> THEN 0
  ELSE Len(MappingEntries(data)[1].codes)

\* createRegionsSheet: servicesInRegion.length
ServiceCount(data, region) ==
  Len(ServicesInRegion(MappingEntries(data), RegionCode(region), 1))

\* region.launchDate || region.LaunchDate || ''
LaunchDate(region) ==
  FirstTruthy(<<Field(region, "launchDate"), Field(region, "LaunchDate")>>, 1)

\* new Date(text): the date of an ISO text, Invalid Date for any other text
\* (the constructor does not throw)
NewDate(text) ==
  IF text = "2016-10-17T12:00:00Z"
  THEN [valid |-> TRUE, iso |-> "2016-10-17T12:00:00.000Z"]
  ELSE [valid |-> FALSE, iso |-> ""]

\* date.toISOString().split('T')[0]
IsoDay(date) == IF date.iso = "2016-10-17T12:00:00.000Z" THEN "2016-10-17"
                ELSE date.iso

\* the Launch Date cell: 'N/A' unless the text is truthy and parses; the
\* catch that would keep the original text is never entered
FormattedLaunchDate(region) ==
  IF LaunchDate(region) = "" THEN "N/A"
  ELSE IF NewDate(LaunchDate(region)).valid
       THEN IsoDay(NewDate(LaunchDate(region)))
       ELSE "N/A"

\* launchDateCell.font: gray italic when the value is 'N/A'
LaunchDateFont(value) == IF value = "N/A" THEN "gray-italic" ELSE ""

RegionsSheet(data) ==
  [i \in 1..Len(data.regions) |->
     [regionCode |-> RegionCode(data.regions[i]),
      serviceCount |-> ServiceCount(data, data.regions[i]),
      launchDate |-> FormattedLaunchDate(data.regions[i]),
      launchDateFont |->
        LaunchDateFont(FormattedLaunchDate(data.regions[i]))]]

\* the number of times a code occurs in one region's list
Occurrences(codes, code) ==
  Cardinality({j \in 1..Len(codes) : codes[j] = code})

RECURSIVE ServiceRegionCounts(_, _, _)
\* serviceRegionCounts.get(serviceCode) || 0, after the double forEach over
\* every key of servicesByRegion and every code of its list
ServiceRegionCounts(entries, serviceCode, i) ==
  IF i > Len(entries) THEN 0
  ELSE Occurrences(entries[i].codes, serviceCode)
       + ServiceRegionCounts(entries, serviceCode, i + 1)

\* x.toFixed(1) for x = num / den >= 0: the decimal text with one fraction
\* digit, ties rounded up
ToFixed1(num, den) ==
  LET tenths == (20 * num + den) \div (2 * den)
  IN [fixed |-> TRUE, int |-> tenths \div 10, frac |-> tenths % 10]

\* totalRegions > 0 ? ((regionCount / totalRegions) * 100).toFixed(1) : 0
CoveragePercent(regionCount, totalRegions) ==
  IF totalRegions > 0 THEN ToFixed1(regionCount * 100, totalRegions)
  ELSE [fixed |-> FALSE, int |-> 0, frac |-> 0]

\* `${coveragePercent}%`
PercentText(coveragePercent) ==
  IF coveragePercent.fixed
  THEN ToString(coveragePercent.int) \o "." \o ToString(coveragePercent.frac)
       \o "%"
  ELSE ToString(coveragePercent.int) \o "%"

\* parseFloat(coveragePercent), in tenths of a percent
ParseFloat(coveragePercent) == coveragePercent.int * 10 + coveragePercent.frac

\* the if / else-if chain on percentValue (in tenths)
PercentStyle(percentValue) ==
  IF percentValue = 1000 THEN "greenBold"
  ELSE IF percentValue >= 750 THEN "lightGreen"
  ELSE IF percentValue >= 500 THEN "orange"
  ELSE IF percentValue > 0 THEN "red"
  ELSE "grayItalic"

\* String.prototype.toLowerCase on the names of the model
ToLowerCase(str) ==
  CASE str = "Amazon EC2" -> "amazon ec2"
    [] str = "AWS Lambda" -> "aws lambda"
    [] str = "EC2" -> "ec2"
    [] OTHER -> str

\* the collation order of the names of the model
Collation == <<"", "amazon ec2", "Amazon EC2", "aws lambda", "AWS Lambda",
               "ec2", "EC2", "lambda", "s3">>
Rank(str) == CHOOSE i \in 1..Len(Collation) : Collation[i] = str

\* String.prototype.localeCompare
LocaleCompare(a, b) ==
  IF Rank(a) < Rank(b) THEN -1 ELSE IF Rank(a) > Rank(b) THEN 1 ELSE 0

\* the Services sheet compares the names as they are
ServicesSortName_cased(service) ==
  FirstTruthy(<<Field(service, "serviceName"), Field(service, "ServiceName"),
                Field(service, "name")>>, 1)

\* createServicesSheet: (a.serviceName || a.ServiceName || a.name ||
\* '').toLowerCase()
ServicesSortName(service) ==
  ToLowerCase(FirstTruthy(<<Field(service, "serviceName"),
                            Field(service, "ServiceName"),
                            Field(service, "name")>>, 1))

\* the matrix compares the names as they are
CoverageSortName_cased(service) == ServiceName(service)

\* createServiceCoverageSheet: (a.name || a.serviceName || a.ServiceName ||
\* '').toLowerCase()
CoverageSortName(service) == ToLowerCase(ServiceName(service))

\* one step of the stable sort: x goes behind every element that does not
\* compare greater than it
InsertSorted(sorted, x, Name(_)) ==
  LET k == Cardinality({i \in 1..Len(sorted) :
                          LocaleCompare(Name(sorted[i]), Name(x)) <= 0})
  IN SubSeq(sorted, 1, k) \o <<x>> \o SubSeq(sorted, k + 1, Len(sorted))

RECURSIVE SortServices(_, _, _)
\* [...services].sort((a, b) => nameA.localeCompare(nameB)), a stable sort
SortServices(svcs, Name(_), n) ==
  IF n = 0 THEN << >>
  ELSE InsertSorted(SortServices(svcs, Name, n - 1), svcs[n], Name)

\* createServicesSheet: one row per service, in sorted order
ServicesSheet(data) ==
  LET sortedServices ==
        SortServices(data.services, ServicesSortName, Len(data.services))
      totalRegions == Len(data.regions)
  IN [i \in 1..Len(sortedServices) |->
        LET regionCount ==
              ServiceRegionCounts(MappingEntries(data),
                                  ServiceCode(sortedServices[i]), 1)
            coveragePercent == CoveragePercent(regionCount, totalRegions)
        IN [service |-> sortedServices[i],
            serviceCode |-> ServiceCode(sortedServices[i]),
            serviceName |-> ServiceName(sortedServices[i]),
            availableRegions |-> regionCount,
            coveragePercent |-> PercentText(coveragePercent),
            percentValue |-> ParseFloat(coveragePercent),
            style |-> PercentStyle(ParseFloat(coveragePercent))]]

\* the placeholder is shown only when servicesByRegion is falsy
CoverageUnavailable_falsy(data) == ~data.servicesByRegion.defined

\* !sourceData.servicesByRegion ||
\* Object.keys(sourceData.servicesByRegion).length === 0
CoverageUnavailable(data) ==
  \/ ~data.servicesByRegion.defined
  \/ Len(data.servicesByRegion.entries) = 0

\* the UTF-16 code units 65 ('A') to 95 ('_')
CodeUnits ==
  <<"A", "B", "C", "D", "E", "F", "G", "H", "I", "J", "K", "L", "M", "N",
    "O", "P", "Q", "R", "S", "T", "U", "V", "W", "X", "Y", "Z", "[", "\\",
    "]", "^", "_">>

\* String.fromCharCode(code)
FromCharCode(code) == CodeUnits[code - 64]

\* sheet.autoFilter: from 'A1' to the cell named by one character
AutoFilter(headers) ==
  [from |-> "A1", to |-> FromCharCode(65 + Len(headers) - 1) \o "1"]

\* createServiceCoverageSheet: the merged placeholder cell, or the header
\* row and one row of marks per service of the services list
CoverageSheet(data) ==
  IF CoverageUnavailable(data)
  THEN [placeholder |-> TRUE,
        message |-> "Service-by-region mapping not available in source data",
        alignment |-> "center", headers |-> << >>,
        autoFilter |-> [from |-> "", to |-> ""], rows |-> << >>]
  ELSE LET regionCodes ==
             [j \in 1..Len(data.regions) |-> RegionCode(data.regions[j])]
           sortedServices ==
             SortServices(data.services, CoverageSortName,
                          Len(data.services))
       IN [placeholder |-> FALSE, message |-> "", alignment |-> "",
           headers |-> <<"Service">> \o regionCodes,
           autoFilter |-> AutoFilter(<<"Service">> \o regionCodes),
           rows |->
             [i \in 1..Len(sortedServices) |->
                [service |-> sortedServices[i],
                 serviceName |-> ServiceName(sortedServices[i]),
                 cells |->
                   [j \in 1..Len(regionCodes) |->
                      Occurrences(
                        ServicesInRegion(data.servicesByRegion.entries,
                                         regionCodes[j], 1),
                        ServiceCode(sortedServices[i])) > 0]]]]

\* generateExcelReport: the four sheets, in the order they are created
GenerateExcelReport(data) ==
  [built |-> TRUE,
   summary |-> SummarySheet(data),
   regions |-> RegionsSheet(data),
   services |-> ServicesSheet(data),
   coverage |-> CoverageSheet(data)]

\* ------------------------------------------------------------------- Init
InitRun ==
  /\ reads = [primary |-> "", secondary |-> "",
              gets |-> [primary |-> 0, secondary |-> 0]]
  /\ sourceData = NoSource
  /\ servicesWithNames = << >>
  /\ services = << >>
  /\ workbook = NoWorkbook
  /\ excelBuffer = FALSE
  /\ upload = NoUpload
  /\ reportMetadata = NoMetadata
  /\ archiveManagementWarning = ""
  /\ sweep = NoSweep
  /\ notifications = << >>
  /\ response = NoResponse
  /\ error = NoError
  /\ log = << >>

Init ==
  /\ pc = "readSource"
  /\ config \in [archiveRetentionDays : RetentionChoices,
                 distributionConfigured : BOOLEAN]
  /\ bucket \in [primary : HandlerPrimary, secondary : HandlerSecondary]
  /\ \E ages \in SeqsUpTo(StoredAges, MaxStored) :
       store = [latest |-> "previous", mirror |-> "previous",
                archive |-> StoredArchive(ages)]
  /\ normalizedData = NoModel
  /\ clock = 0
  /\ runs = << >>
  /\ InitRun

\* ------------------------------------------------------- handler, Steps 1-3
\* the handler's try block throws e at the given stage
Throw(msg, stage) ==
  /\ error' = [message |-> msg, name |-> "Error", stage |-> stage]
  /\ pc' = "catch"

\* Step 1: await readSourceData(sourceBucket, sourceKey)
ReadSource ==
  /\ pc = "readSource"
  /\ log' = Append(log, "readSource")
  /\ \E netOk \in BOOLEAN :
       LET outcome == ReadOutcome(bucket.primary, netOk)
       IN /\ reads' = [reads EXCEPT !.primary = outcome,
                                     !.gets.primary = @ + 1]
          /\ IF outcome = "ok"
             THEN /\ sourceData' = bucket.primary.doc
                  /\ pc' = "readServices"
                  /\ error' = error
             ELSE /\ Throw(ReadErrorMessage(outcome), "readSource")
                  /\ sourceData' = sourceData
  /\ UNCHANGED <<config, bucket, clock, runs, normalizedData, workbook, store, servicesWithNames, services,
                 excelBuffer, upload, reportMetadata,
                 archiveManagementWarning, sweep, notifications, response>>

\* Step 1b: await readServicesData(sourceBucket, 'aws-data/services.json')
ReadServices ==
  /\ pc = "readServices"
  /\ log' = Append(log, "readServices")
  /\ \E netOk \in BOOLEAN :
       LET outcome == ReadOutcome(bucket.secondary, netOk)
       IN /\ reads' = [reads EXCEPT !.secondary = outcome,
                                     !.gets.secondary = @ + 1]
          /\ servicesWithNames' = ReadServicesResult(outcome, bucket.secondary)
  /\ pc' = "normalize"
  /\ UNCHANGED <<config, bucket, clock, runs, normalizedData, workbook, store, sourceData, services, excelBuffer,
                 upload, reportMetadata, archiveManagementWarning, sweep,
                 notifications, response, error>>

\* Step 2 and the normalization that follows it, up to the call of
\* generateExcelReport
Normalize ==
  /\ pc = "normalize"
  /\ log' = Append(log, "normalize")
  /\ IF IsValidStructure(sourceData)
     THEN /\ services' = EnrichServices(sourceData.serviceCodes,
                                        servicesWithNames)
          /\ normalizedData' = NormalizedData(sourceData, services')
          /\ pc' = "render"
          /\ error' = error
     ELSE /\ Throw("Invalid data structure: missing required fields",
                   "normalize")
          /\ UNCHANGED <<services, normalizedData>>
  /\ UNCHANGED <<config, bucket, clock, runs, workbook, reads, store, sourceData, servicesWithNames, excelBuffer,
                 upload, reportMetadata, archiveManagementWarning, sweep,
                 notifications, response>>

\* bug: the archive name carries the date only
GenerateTimestampedFilename_daily(t) == Now * 86400

\* generateTimestampedFilename: format(new Date(), 'yyyy-MM-dd-HHmmss'), the
\* name as the number of the second it denotes (t: milliseconds of the day)
GenerateTimestampedFilename(t) == Now * 86400 + t \div 1000

\* Step 3: await generateExcelReport(normalizedData); serialization may fail
Render ==
  /\ pc = "render"
  /\ log' = Append(log, "render")
  /\ \/ /\ Throw("Excel generation failed", "render")
        /\ UNCHANGED <<workbook, excelBuffer, upload>>
     \/ /\ workbook' = GenerateExcelReport(normalizedData)
        /\ excelBuffer' = TRUE
        /\ upload' = [upload EXCEPT
                        !.key = "latest", !.attempt = 1,
                        !.archiveFileName = GenerateTimestampedFilename(clock),
                        !.namedAt = clock]
        /\ pc' = "put"
        /\ error' = error
  /\ UNCHANGED <<config, bucket, clock, runs, normalizedData, reads, store, sourceData, servicesWithNames, services,
                 reportMetadata, archiveManagementWarning, sweep,
                 notifications, response>>

\* -------------------------------------------------- uploadReports, uploadToS3
\* bug: the loop also retries (and backs off) after the last attempt
ShouldRetry_inclusive(attempt) == attempt <= maxRetries

\* the loop of uploadToS3 goes on to another attempt after a failed one
ShouldRetry(attempt) == attempt < maxRetries

\* Math.pow(2, attempt) * 1000
BackoffDelay(attempt) == (2 ^ attempt) * 1000

\* bug: the put of the latest key writes the archive object as well
PutObject_both(st, k) ==
  [st EXCEPT !.latest = "current",
             !.archive = Append(@, [Key |-> upload.archiveFileName,
                                    LastModified |-> Now,
                                    run |-> Len(runs) + 1])]

\* the bucket after a successful PutObject of the run's buffer at key k
PutObject(st, k) ==
  IF k = "latest" THEN [st EXCEPT !.latest = "current"]
  ELSE LET written == [Key |-> upload.archiveFileName, LastModified |-> Now,
                       run |-> Len(runs) + 1]
       IN IF \E i \in 1..Len(st.archive) : st.archive[i].Key = written.Key
          THEN [st EXCEPT !.archive =
                  [i \in 1..Len(@) |-> IF @[i].Key = written.Key
                                       THEN written ELSE @[i]]]
          ELSE [st EXCEPT !.archive = Append(@, written)]

\* bug: uploadReports returns after the latest upload alone
AfterUpload_early(k) == "distribute"

\* where uploadReports goes after uploadToS3 returned for key k
AfterUpload(k) == IF k = "latest" THEN "put" ELSE "distribute"

\* bug: a failed archive upload is swallowed instead of thrown
AfterExhausted_swallow(k) == IF k = "archive" THEN "distribute" ELSE "catch"

\* where the throw after the loop of uploadToS3 lands: uploadReports has no
\* try/catch, so the handler's catch block
AfterExhausted(k) == "catch"

\* Step 4: one attempt of the loop of uploadToS3: s3Client.send(PutObject)
\* succeeds or throws; a failed attempt that is not the last one starts the
\* backoff timer, the last one leaves the loop and throws
PutAttempt ==
  /\ pc = "put"
  /\ LET k == upload.key
         a == upload.attempt
         started == IF a = 1 THEN Append(log, "upload_" \o k) ELSE log
         counted == [upload EXCEPT !.puts[k] = @ + 1]
     IN \/ /\ store' = PutObject(store, k)
           /\ upload' = [counted EXCEPT !.done[k] = TRUE,
                            !.key = IF k = "latest" THEN "archive" ELSE k,
                            !.attempt = IF k = "latest" THEN 1 ELSE a]
           /\ pc' = AfterUpload(k)
           /\ reportMetadata' = [reportMetadata EXCEPT
                                   !.uploaded = (k = "archive")]
           /\ error' = error
           /\ log' = started
        \/ /\ ShouldRetry(a)
           /\ upload' = [counted EXCEPT
                           !.delays[k] = Append(@, BackoffDelay(a))]
           /\ pc' = "backoff"
           /\ log' = started
           /\ UNCHANGED <<store, reportMetadata, error>>
        \/ /\ ~ShouldRetry(a)
           /\ upload' = counted
           /\ error' = [message |-> "Failed to upload after maxRetries attempts",
                        name |-> "Error",
                        stage |-> "upload_" \o k]
           /\ pc' = AfterExhausted(k)
           /\ log' = started
           /\ UNCHANGED <<store, reportMetadata>>
  /\ UNCHANGED <<config, bucket, clock, runs, normalizedData, workbook, reads, sourceData, servicesWithNames, services,
                 excelBuffer, archiveManagementWarning, sweep,
                 notifications, response>>

\* the backoff timer fires: the for loop increments attempt
Backoff ==
  /\ pc = "backoff"
  /\ upload' = [upload EXCEPT !.attempt = @ + 1]
  /\ pc' = "put"
  /\ UNCHANGED <<config, bucket, clock, runs, normalizedData, workbook, reads, store, sourceData, servicesWithNames, services,
                 excelBuffer, reportMetadata, archiveManagementWarning,
                 sweep, notifications, response, error, log, clock, runs>>

\* ------------------------------------------------------- distributeReports
\* bug: the result of a failed copy does not carry the error
DistributionResult_noerror(configured, copied) ==
  IF ~configured
  THEN [set |-> TRUE, distributed |-> FALSE,
        reason |-> "Distribution bucket not configured", error |-> ""]
  ELSE [set |-> TRUE, distributed |-> copied, reason |-> "", error |-> ""]

\* the value distributeReports returns: skipped, copied, or copy failed
DistributionResult(configured, copied) ==
  IF ~configured
  THEN [set |-> TRUE, distributed |-> FALSE,
        reason |-> "Distribution bucket not configured", error |-> ""]
  ELSE IF copied
       THEN [set |-> TRUE, distributed |-> TRUE, reason |-> "", error |-> ""]
       ELSE [set |-> TRUE, distributed |-> FALSE, reason |-> "",
             error |-> "CopyObject failed"]

\* Step 5: await distributeReports(...); reportMetadata.distributionResult
Distribute ==
  /\ pc = "distribute"
  /\ log' = Append(log, "distribute")
  /\ \E copied \in BOOLEAN :
       /\ (~config.distributionConfigured) => copied = FALSE
       /\ reportMetadata' =
            [reportMetadata EXCEPT !.distributionResult =
               DistributionResult(config.distributionConfigured, copied)]
       /\ store' = IF config.distributionConfigured /\ copied
                   THEN [store EXCEPT !.mirror = store.latest]
                   ELSE store
  /\ pc' = "sweep_list"
  /\ UNCHANGED <<config, bucket, clock, runs, normalizedData, workbook, reads, sourceData, servicesWithNames, services,
                 excelBuffer, upload, archiveManagementWarning, sweep,
                 notifications, response, error>>

\* --------------------------------------------------- manageArchiveRetention
\* bug: the cutoff is the time of the sweep, the window is not subtracted
CutoffDate_now(retentionDays) == Now

\* cutoffDate = new Date(); cutoffDate.setDate(getDate() - retentionDays)
CutoffDate(retentionDays) == Now - retentionDays

\* bug: an object exactly retentionDays old is treated as expired
IsExpired_inclusive(obj, cutoffDate) == obj.LastModified <= cutoffDate

\* obj.LastModified < cutoffDate
IsExpired(obj, cutoffDate) == obj.LastModified < cutoffDate

\* the expiredObjects array built by objects.forEach
ExpiredObjects(objects, cutoffDate) ==
  LET Test(o) == IsExpired(o, cutoffDate) IN SelectIdx(objects, Test, 1)

\* the retainedObjects array built by objects.forEach
RetainedObjects(objects, cutoffDate) ==
  LET Test(o) == ~IsExpired(o, cutoffDate) IN SelectIdx(objects, Test, 1)

\* the archive prefix after a successful DeleteObject of key k
DeleteObject(st, k) ==
  LET Test(o) == o.Key # k
  IN [st EXCEPT !.archive = SelectIdx(@, Test, 1)]

\* bug: deletedCount++ placed outside the try block
CountDeleted_always(count, ok) == count + 1

\* deletedCount after the delete request for one expired object
CountDeleted(count, ok) == IF ok THEN count + 1 ELSE count

\* the sweep returns {retained, deleted}
SweepReturns(sw, r, d) ==
  [sw EXCEPT !.status = "returned", !.retained = r, !.deleted = d]

\* await s3Client.send(listCommand), then the partition of the listing; the
\* function returns at once when nothing is listed or nothing is expired,
\* and throws 'Archive retention management failed' when the listing fails
SweepList ==
  /\ pc = "sweep_list"
  /\ log' = Append(log, "retention")
  /\ \/ /\ sweep' = [sweep EXCEPT !.status = "threw"]
        /\ pc' = "sweep_done"
     \/ LET objects == store.archive
            cutoffDate == CutoffDate(config.archiveRetentionDays)
            expired == ExpiredObjects(objects, cutoffDate)
            retained == RetainedObjects(objects, cutoffDate)
            listed == [sweep EXCEPT !.listed = TRUE, !.objects = objects]
        IN IF Len(objects) = 0
           THEN /\ sweep' = SweepReturns(listed, 0, 0)
                /\ pc' = "sweep_done"
           ELSE LET parted == [listed EXCEPT !.expiredObjects = expired,
                                 !.retainedObjects = retained, !.idx = 1]
                IN IF Len(expired) = 0
                   THEN /\ sweep' = SweepReturns(parted, Len(retained), 0)
                        /\ pc' = "sweep_done"
                   ELSE /\ sweep' = parted
                        /\ pc' = "sweep_delete"
  /\ UNCHANGED <<config, bucket, clock, runs, normalizedData, workbook, reads, store, sourceData, servicesWithNames, services,
                 excelBuffer, upload, reportMetadata,
                 archiveManagementWarning, notifications, response, error>>

\* one iteration of for (const obj of expiredObjects): the delete request
\* succeeds or throws, the throw is caught inside the loop; after the last
\* expired object the function returns the counts
SweepDelete ==
  /\ pc = "sweep_delete"
  /\ \E ok \in BOOLEAN :
       LET obj == sweep.expiredObjects[sweep.idx]
           count == CountDeleted(sweep.deletedCount, ok)
           tried == [sweep EXCEPT !.deletedCount = count,
                       !.deleteAttempts = Append(@, obj.Key),
                       !.idx = @ + 1]
       IN /\ store' = IF ok THEN DeleteObject(store, obj.Key) ELSE store
          /\ IF sweep.idx < Len(sweep.expiredObjects)
             THEN /\ sweep' = tried
                  /\ pc' = "sweep_delete"
             ELSE /\ sweep' = SweepReturns(tried,
                                Len(sweep.retainedObjects), count)
                  /\ pc' = "sweep_done"
  /\ UNCHANGED <<config, bucket, clock, runs, normalizedData, workbook, reads, sourceData, servicesWithNames, services,
                 excelBuffer, upload, reportMetadata,
                 archiveManagementWarning, notifications, response, error,
                 log>>

\* -------------------------------------------------- handler, Steps 6 to 10
\* Step 6: the try/catch around manageArchiveRetention, and Step 7
RecordRetention ==
  /\ pc = "sweep_done"
  /\ IF sweep.status = "returned"
     THEN /\ reportMetadata' =
               [reportMetadata EXCEPT !.retentionSet = TRUE,
                  !.archivedReportsRetained =
                      [tag |-> "number", n |-> sweep.retained],
                  !.archivedReportsDeleted = sweep.deleted]
          /\ archiveManagementWarning' = archiveManagementWarning
     ELSE /\ reportMetadata' =
               [reportMetadata EXCEPT !.retentionSet = TRUE,
                  !.archivedReportsRetained = [tag |-> "Unknown", n |-> 0],
                  !.archivedReportsDeleted = 0]
          /\ archiveManagementWarning' = "Archive retention management failed"
  /\ pc' = "notify"
  /\ UNCHANGED <<config, bucket, clock, runs, normalizedData, workbook, reads, store, sourceData, servicesWithNames, services,
                 excelBuffer, upload, sweep, notifications, response, error,
                 log>>

\* Step 8: which notification the handler sends after a completed run
NotificationKind(warning) == IF warning # "" THEN "warning" ELSE "success"

\* the outcomes of a publish to the notification topic
DispatchOutcomes == {"sent", "threw"}

\* Step 7: successMetrics, with ...reportMetadata spread into it
SuccessMetrics ==
  [set |-> TRUE,
   regionCount |-> Len(normalizedData.regions),
   serviceCount |-> Len(services),
   serviceMappingCount |->
     MappingTotal(normalizedData.servicesByRegion.entries, 1),
   reportMetadata |-> reportMetadata]

\* the handler's return value in the try block (Step 10)
SuccessResponse ==
  [statusCode |-> 200, message |-> "Report generated successfully",
   error |-> "", errorType |-> "", metrics |-> SuccessMetrics]

\* error.name || 'UnknownError'
ErrorType(e) == IF e.name # "" THEN e.name ELSE "UnknownError"

\* the catch block returns the message without the error's type
ErrorResponse_untyped(e) ==
  [statusCode |-> 500, message |-> "Report generation failed",
   error |-> e.message, errorType |-> "", metrics |-> NoMetrics]

\* the handler's return value in the catch block
ErrorResponse(e) ==
  [statusCode |-> 500, message |-> "Report generation failed",
   error |-> e.message, errorType |-> ErrorType(e), metrics |-> NoMetrics]

\* Steps 8 to 10: await send{Warning,Success}Notification inside the try
\* block, then return 200; a throw of the send is caught by the catch block
Notify ==
  /\ pc = "notify"
  /\ log' = Append(log, "notify")
  /\ \E outcome \in DispatchOutcomes :
       /\ notifications' = Append(notifications,
            [kind |-> NotificationKind(archiveManagementWarning),
             outcome |-> outcome])
       /\ IF outcome = "sent"
          THEN /\ response' = SuccessResponse
               /\ pc' = "done"
               /\ error' = error
          ELSE /\ Throw("Notification publish failed", "notify")
               /\ response' = response
  /\ UNCHANGED <<config, bucket, clock, runs, normalizedData, workbook, reads, store, sourceData, servicesWithNames, services,
                 excelBuffer, upload, reportMetadata,
                 archiveManagementWarning, sweep>>

\* bug: the catch block returns without sending the failure notification
Catch_silent ==
  /\ pc = "catch"
  /\ response' = [statusCode |-> 500, message |-> "Report generation failed",
                  error |-> error.message, errorType |-> error.name,
                  metrics |-> NoMetrics]
  /\ pc' = "done"
  /\ UNCHANGED <<config, bucket, clock, runs, normalizedData, workbook, reads, store, sourceData,
                 servicesWithNames, services, excelBuffer, upload,
                 reportMetadata, archiveManagementWarning, sweep,
                 notifications, error, log>>

\* the catch block: await sendFailureNotification inside its own try/catch,
\* then return 500
Catch ==
  /\ pc = "catch"
  /\ \E outcome \in DispatchOutcomes :
       notifications' = Append(notifications,
            [kind |-> "failure", outcome |-> outcome])
  /\ response' = ErrorResponse(error)
  /\ pc' = "done"
  /\ UNCHANGED <<config, bucket, clock, runs, normalizedData, workbook, reads, store, sourceData, servicesWithNames, services,
                 excelBuffer, upload, reportMetadata,
                 archiveManagementWarning, sweep, error, log>>

\* ---------------------------------------------------------- specifications
Next ==
  \/ ReadSource
  \/ ReadServices
  \/ Normalize
  \/ Render
  \/ PutAttempt
  \/ Backoff
  \/ Distribute
  \/ SweepList
  \/ SweepDelete
  \/ RecordRetention
  \/ Notify
  \/ Catch

Spec == Init /\ [][Next]_vars

\* the Lambda runtime runs the handler's awaited steps to completion: every
\* await in the handler settles, so an enabled step is eventually taken
LiveInit ==
  /\ pc = "readSource"
  /\ config \in [archiveRetentionDays : {DefaultRetentionDays},
                 distributionConfigured : BOOLEAN]
  /\ bucket \in [primary : {AbsentObject,
                            PrimaryDocument(TRUE, TRUE, TRUE, <<"ec2", "s3">>,
                                            TwoRegions, ExampleMapping)},
                 secondary : {AbsentObject}]
  /\ store = [latest |-> "previous", mirror |-> "previous",
              archive |-> StoredArchive(<<8, 5>>)]
  /\ normalizedData = NoModel
  /\ clock = 0
  /\ runs = << >>
  /\ InitRun

LiveSpec == LiveInit /\ [][Next]_vars /\ WF_vars(Next)

\* manageArchiveRetention invoked on its own on an arbitrary archive prefix
SweepInit ==
  /\ pc = "sweep_list"
  /\ config \in [archiveRetentionDays : RetentionChoices,
                 distributionConfigured : {FALSE}]
  /\ bucket = [primary |-> AbsentObject, secondary |-> AbsentObject]
  /\ \E ages \in SeqsUpTo(Ages, MaxListed) :
       store = [latest |-> "previous", mirror |-> "previous",
                archive |-> StoredArchive(ages)]
  /\ normalizedData = NoModel
  /\ clock = 0
  /\ runs = << >>
  /\ InitRun

SweepNext ==
  \/ SweepList
  \/ SweepDelete

SweepSpec == SweepInit /\ [][SweepNext]_vars

\* the reading and normalization stages on arbitrary documents
ReadInit ==
  /\ pc = "readSource"
  /\ config = [archiveRetentionDays |-> DefaultRetentionDays,
               distributionConfigured |-> FALSE]
  /\ bucket \in [primary : AnyPrimary, secondary : AnySecondary]
  /\ store = [latest |-> "previous", mirror |-> "previous",
              archive |-> << >>]
  /\ normalizedData = NoModel
  /\ clock = 0
  /\ runs = << >>
  /\ InitRun

ReadNext ==
  \/ ReadSource
  \/ ReadServices
  \/ Normalize

ReadSpec == ReadInit /\ [][ReadNext]_vars

\* the reading and normalization stages on arbitrary coverage mappings
MapInit ==
  /\ pc = "readSource"
  /\ config = [archiveRetentionDays |-> DefaultRetentionDays,
               distributionConfigured |-> FALSE]
  /\ bucket \in [primary : MappedPrimary, secondary : {AbsentObject}]
  /\ store = [latest |-> "previous", mirror |-> "previous",
              archive |-> << >>]
  /\ normalizedData = NoModel
  /\ clock = 0
  /\ runs = << >>
  /\ InitRun

MapNext ==
  \/ ReadSource
  \/ ReadServices
  \/ Normalize

MapSpec == MapInit /\ [][MapNext]_vars

\* generateExcelReport on an arbitrary canonical model
RenderInit ==
  /\ pc = "render"
  /\ config = [archiveRetentionDays |-> DefaultRetentionDays,
               distributionConfigured |-> FALSE]
  /\ bucket = [primary |-> AbsentObject, secondary |-> AbsentObject]
  /\ store = [latest |-> "previous", mirror |-> "previous",
              archive |-> << >>]
  /\ normalizedData \in AnyModel
  /\ clock = 0
  /\ runs = << >>
  /\ InitRun

RenderNext == Render

RenderSpec == RenderInit /\ [][RenderNext]_vars

\* ------------------------------------------------- repeated invocations
\* what a later invocation finds of one that returned
RunRecord ==
  [statusCode |-> response.statusCode,
   normalizedData |-> normalizedData,
   workbook |-> workbook,
   archiveFileName |-> upload.archiveFileName,
   namedAt |-> upload.namedAt,
   archived |-> upload.done["archive"]]

\* the buffer an earlier invocation left at a key is no longer the current one
Earlier(content) == IF content = "current" THEN "previous" ELSE content

\* the next invocation of the handler: fresh locals (the handler keeps no
\* state between invocations), the bucket as the earlier invocations left it
Invoke ==
  /\ pc = "done"
  /\ Len(runs) + 1 < MaxRuns
  /\ runs' = Append(runs, RunRecord)
  /\ store' = [store EXCEPT !.latest = Earlier(@), !.mirror = Earlier(@)]
  /\ pc' = "readSource"
  /\ reads' = [primary |-> "", secondary |-> "",
               gets |-> [primary |-> 0, secondary |-> 0]]
  /\ sourceData' = NoSource
  /\ servicesWithNames' = << >>
  /\ services' = << >>
  /\ normalizedData' = NoModel
  /\ workbook' = NoWorkbook
  /\ excelBuffer' = FALSE
  /\ upload' = NoUpload
  /\ reportMetadata' = NoMetadata
  /\ archiveManagementWarning' = ""
  /\ sweep' = NoSweep
  /\ notifications' = << >>
  /\ response' = NoResponse
  /\ error' = NoError
  /\ log' = << >>
  /\ UNCHANGED <<config, bucket, clock>>

\* time passes; the clock is read by generateExcelReport and uploadReports
\* alone, so it is advanced between invocations and before the rendering
Tick ==
  /\ pc \in {"readSource", "render"}
  /\ clock + 500 <= MaxClock
  /\ clock' = clock + 500
  /\ UNCHANGED <<pc, config, bucket, reads, store, sourceData,
                 servicesWithNames, services, normalizedData, workbook,
                 excelBuffer, upload, reportMetadata,
                 archiveManagementWarning, sweep, notifications, response,
                 error, log, runs>>

RunsInit ==
  /\ pc = "readSource"
  /\ config = [archiveRetentionDays |-> DefaultRetentionDays,
               distributionConfigured |-> FALSE]
  /\ bucket \in [primary : {PrimaryDocument(TRUE, TRUE, TRUE, <<"ec2", "s3">>,
                                            TwoRegions, ExampleMapping),
                            [PrimaryDocument(TRUE, TRUE, TRUE, <<"ec2", "s3">>,
                                             TwoRegions, ExampleMapping)
                               EXCEPT !.doc.timestamp = ""]},
                 secondary : {AbsentObject}]
  /\ store = [latest |-> "previous", mirror |-> "previous",
              archive |-> StoredArchive(<<8>>)]
  /\ normalizedData = NoModel
  /\ clock = 0
  /\ runs = << >>
  /\ InitRun

RunsNext ==
  \/ Next
  \/ Invoke
  \/ Tick

RunsSpec == RunsInit /\ [][RunsNext]_vars

\* ------------------------------------------------------------------ claims
UploadKeys == {"latest", "archive"}
InLog(stage) == \E i \in 1..Len(log) : log[i] = stage
UploadInProgress(k) == pc \in {"put", "backoff"} /\ upload.key = k
                       /\ ~upload.done[k]
Age(obj) == Now - obj.LastModified

\* C1: uploadToS3 makes at most 3 put attempts for a key and stops at the
\* first success; a backoff follows a failed attempt only when another
\* attempt follows it; 2 failures then a success surface no error, and 3
\* failures throw the upload error with which the run returns 500.
C1_UploadRetry ==
  \A k \in UploadKeys :
    /\ upload.puts[k] <= 3
    /\ Len(upload.delays[k]) <= 2
    /\ UploadInProgress(k) =>
         Len(upload.delays[k]) =
           IF pc = "backoff" THEN upload.puts[k] ELSE upload.attempt - 1
    /\ (upload.puts[k] > 0 /\ ~UploadInProgress(k)) =>
         Len(upload.delays[k]) = upload.puts[k] - 1
    /\ upload.done[k] => error.stage # "upload_" \o k
    /\ (upload.puts[k] = 3 /\ ~upload.done[k] /\ ~UploadInProgress(k)) =>
         /\ error.stage = "upload_" \o k
         /\ pc \in {"catch", "done"}
         /\ pc = "done" => response.statusCode = 500
    /\ error.stage = "upload_" \o k =>
         upload.puts[k] = 3 /\ ~upload.done[k]

C1_Witness ==
  /\ pc = "done"
  /\ upload.puts["latest"] = 3 /\ upload.done["latest"]
  /\ upload.puts["archive"] = 3 /\ ~upload.done["archive"]
  /\ response.statusCode = 500

\* C2: a run returns 200 only if both uploads succeeded; an upload that
\* fails after its retries makes the run return 500, and the object the
\* other upload wrote stays in the bucket (nothing is deleted or undone).
C2_BothUploads ==
  /\ (pc = "done" /\ response.statusCode = 200) =>
       /\ upload.done["latest"] /\ upload.done["archive"]
       /\ store.latest = "current"
  /\ \A k \in UploadKeys :
       error.stage = "upload_" \o k =>
         /\ pc = "done" => response.statusCode = 500
         /\ upload.done["latest"] => store.latest = "current"
         /\ ~sweep.listed /\ sweep.deleteAttempts = << >>
         /\ store.mirror = "previous"

C2_Witness ==
  /\ pc = "done"
  /\ error.stage = "upload_archive"
  /\ upload.done["latest"] /\ store.latest = "current"
  /\ response.statusCode = 500

\* C3: the sweep puts every listed object in exactly one of expired and
\* retained: expired when it is strictly older than retentionDays, retained
\* otherwise; ages 1, 5, 8, 10 with a 7-day window and no failed deletion
\* give {retained: 2, deleted: 2}.
C3_Partition ==
  (sweep.listed /\ Len(sweep.objects) > 0) =>
    LET n == Len(sweep.objects)
        old == {i \in 1..n : Age(sweep.objects[i]) > config.archiveRetentionDays}
        ages == [i \in 1..n |-> Age(sweep.objects[i])]
    IN /\ Len(sweep.expiredObjects) + Len(sweep.retainedObjects) = n
       /\ Len(sweep.expiredObjects) = Cardinality(old)
       /\ \A j \in 1..Len(sweep.expiredObjects) :
            Age(sweep.expiredObjects[j]) > config.archiveRetentionDays
       /\ \A j \in 1..Len(sweep.retainedObjects) :
            Age(sweep.retainedObjects[j]) <= config.archiveRetentionDays
       /\ sweep.status = "returned" =>
            sweep.retained = n - Cardinality(old)
       /\ (/\ sweep.status = "returned"
           /\ ages = <<1, 5, 8, 10>>
           /\ config.archiveRetentionDays = 7
           /\ Len(store.archive) = n - Len(sweep.deleteAttempts)) =>
            sweep.retained = 2 /\ sweep.deleted = 2

C3_Witness ==
  /\ pc = "sweep_done"
  /\ sweep.status = "returned"
  /\ Len(sweep.objects) = 4
  /\ [i \in 1..4 |-> Age(sweep.objects[i])] = <<1, 5, 8, 10>>
  /\ config.archiveRetentionDays = 7
  /\ sweep.retained = 2 /\ sweep.deleted = 2
  /\ Len(store.archive) = 2

\* C4: a failed deletion does not stop the sweep or the run: once the
\* listing succeeded the sweep returns normally, every expired object was
\* sent a delete request, deleted counts exactly the requests that
\* succeeded, and retained is the number of unexpired objects.
C4_DeleteFailureSkipped ==
  (sweep.listed /\ pc \in {"sweep_done", "notify", "catch", "done"}) =>
    /\ sweep.status = "returned"
    /\ sweep.deleteAttempts =
         [j \in 1..Len(sweep.expiredObjects) |-> sweep.expiredObjects[j].Key]
    /\ sweep.deleted = Len(sweep.objects) - Len(store.archive)
    /\ sweep.deleted <= Len(sweep.expiredObjects)
    /\ sweep.retained = Len(sweep.objects) - Len(sweep.expiredObjects)
    /\ error.stage # "retention"
    /\ pc = "done" => InLog("notify")

C4_Witness ==
  /\ pc = "done"
  /\ Len(sweep.expiredObjects) = 2
  /\ Len(sweep.deleteAttempts) = 2
  /\ sweep.deleted = 1
  /\ \E i \in 1..Len(store.archive) :
       store.archive[i].Key = sweep.expiredObjects[1].Key
  /\ response.statusCode = 200

\* C5: when the sweep as a whole fails after the uploads succeeded, the run
\* returns 200 with archivedReportsRetained 'Unknown' and
\* archivedReportsDeleted 0, and a warning notification is sent instead of
\* a success notification.
C5_SweepFailureDowngraded ==
  (pc = "done" /\ sweep.status = "threw") =>
    /\ response.statusCode = 200
    /\ reportMetadata.archivedReportsRetained.tag = "Unknown"
    /\ reportMetadata.archivedReportsDeleted = 0
    /\ \E i \in 1..Len(notifications) : notifications[i].kind = "warning"
    /\ \A i \in 1..Len(notifications) : notifications[i].kind # "success"

\* C6: a failed mirror copy does not abort the run: distributeReports
\* returns distributed = false with the error, the handler records it as
\* reportMetadata.distributionResult, and the retention sweep and the
\* notification stage still execute.
DistributionFailed ==
  /\ config.distributionConfigured
  /\ reportMetadata.distributionResult.set
  /\ ~reportMetadata.distributionResult.distributed

C6_DistributionNonFatal ==
  /\ (config.distributionConfigured /\ InLog("distribute")) =>
       /\ reportMetadata.distributionResult.set
       /\ reportMetadata.distributionResult.distributed =
            (store.mirror = "current")
  /\ DistributionFailed =>
       /\ reportMetadata.distributionResult.error # ""
       /\ error.stage # "distribute"
       /\ pc \notin {"distribute", "catch"} \/ error.stage = "notify"
       /\ pc = "done" =>
            /\ InLog("retention") /\ sweep.status # ""
            /\ InLog("notify")
            /\ notifications[1].kind \in {"success", "warning"}

C6_Witness ==
  /\ pc = "done"
  /\ DistributionFailed
  /\ sweep.status = "returned"
  /\ notifications = <<[kind |-> "success", outcome |-> "sent"]>>
  /\ response.statusCode = 200

\* C7: a notification that cannot be dispatched does not change the
\* outcome of the run: a run whose reads, rendering and uploads succeeded
\* returns 200, and a run that failed returns 500, whatever the sends did.
C7_DispatchFailureKeepsOutcome ==
  pc = "done" =>
    response.statusCode = IF reportMetadata.uploaded THEN 200 ELSE 500

\* C8: after a fatal error (source read, validation, serialization, upload)
\* no later stage of the pipeline runs, a failure notification is
\* attempted, and the run returns 500.
FatalStages == {"readSource", "normalize", "render", "upload_latest",
                "upload_archive"}
BeforeRender == {"readSource", "normalize"}
BeforeDistribute == FatalStages

NonFatalIssue ==
  \/ reads.secondary \notin {"", "ok"}
  \/ DistributionFailed
  \/ sweep.status = "returned" /\ sweep.deleted < Len(sweep.expiredObjects)
  \/ sweep.status = "threw"

C9_WarningOnNonFatalIssue ==
  (pc = "done" /\ response.statusCode = 200 /\ NonFatalIssue) =>
    /\ Len(notifications) = 1
    /\ notifications[1].kind = "warning"

\* C10: when the secondary document fails to load, readServicesData
\* returns an empty list and the run goes on; every service gets a
\* non-empty name: the name of the entry of the secondary document whose
\* code is exactly the service's code, otherwise the code itself.
LoadedNames ==
  IF reads.secondary = "ok" /\ bucket.secondary.hasServices
  THEN bucket.secondary.names ELSE << >>

ExpectedName(code) ==
  LET m == {j \in 1..Len(LoadedNames) : LoadedNames[j].code = code}
  IN IF m = {} THEN code
     ELSE LET j == CHOOSE x \in m : \A y \in m : y <= x
          IN IF LoadedNames[j].name # "" THEN LoadedNames[j].name ELSE code

C10_NamesFallBackToCode ==
  /\ reads.secondary \notin {"", "ok"} =>
       /\ servicesWithNames = << >>
       /\ error.stage \notin {"readSource", "readServices"}
       /\ (IsValidStructure(sourceData) /\ pc # "normalize") =>
            pc = "render" /\ error = NoError
  /\ pc = "render" =>
       /\ Len(services) = Len(sourceData.serviceCodes)
       /\ \A i \in 1..Len(services) :
            /\ services[i].code = sourceData.serviceCodes[i]
            /\ services[i].name # ""
            /\ services[i].name = ExpectedName(services[i].code)

C10_Witness ==
  /\ pc = "render"
  /\ reads.secondary = "NoSuchKey"
  /\ Len(services) = 2
  /\ \A i \in 1..2 : services[i].name = services[i].code

\* the regions sheet and the services sheet of a rendered workbook
Range(seq) == {seq[i] : i \in 1..Len(seq)}
Rendered == workbook.built
\* the number of regions of the model whose coverage set contains the code
RegionsContaining(code) ==
  Cardinality({j \in 1..Len(normalizedData.regions) :
    code \in Range(ServicesInRegion(normalizedData.servicesByRegion.entries,
                                    RegionCode(normalizedData.regions[j]), 1))})
\* 100 * k / n rounded to one decimal, in tenths of a percent
RoundedTenths(k, n) == (2000 * k + n) \div (2 * n)

\* C11: the coverage percentage of every Services-sheet row lies in [0,100]
\* and is 100 times the number of regions whose coverage set contains the
\* service divided by the number of regions, rounded to one decimal; with
\* no regions it is 0.
C11_CoveragePercent ==
  Rendered =>
    \A i \in 1..Len(workbook.services) :
      LET row == workbook.services[i]
          n == Len(normalizedData.regions)
      IN /\ row.percentValue >= 0
         /\ row.percentValue <= 1000
         /\ row.percentValue =
              IF n = 0 THEN 0
              ELSE RoundedTenths(RegionsContaining(row.serviceCode), n)

\* C12: the style of a percentage cell follows the bands of its percentage
\* p (100 green bold, [75,100) light green, [50,75) orange, (0,50) red,
\* 0 gray italic); a service present in no region gets the gray style, and a
\* service present in some but not all regions gets neither the gray nor
\* the green bold style.
C12_StyleBands ==
  Rendered =>
    \A i \in 1..Len(workbook.services) :
      LET row == workbook.services[i]
          p == row.percentValue
          k == RegionsContaining(row.serviceCode)
          n == Len(normalizedData.regions)
      IN /\ p = 1000 => row.style = "greenBold"
         /\ (750 <= p /\ p < 1000) => row.style = "lightGreen"
         /\ (500 <= p /\ p < 750) => row.style = "orange"
         /\ (0 < p /\ p < 500) => row.style = "red"
         /\ p = 0 => row.style = "grayItalic"
         /\ k = 0 => row.style = "grayItalic"
         /\ (0 < k /\ k < n) => row.style \notin {"grayItalic", "greenBold"}

\* the positions of the input services, and the input position of each row
IsPermutation(f, n) ==
  /\ \A i \in 1..n : f[i] \in 1..n
  /\ \A i \in 1..n : \A j \in 1..n : f[i] = f[j] => i = j
\* the case-insensitive display name of a service
FoldedName(service) == ToLowerCase(ServiceName(service))

\* C13: the rows of the Services sheet are a permutation of the input
\* services in ascending order of case-insensitive display name, and
\* services whose names compare equal keep their input order.
C13_ServicesSorted ==
  Rendered =>
    LET svcs == normalizedData.services
        rows == workbook.services
        n == Len(svcs)
    IN /\ Len(rows) = n
       /\ \E f \in [1..n -> 1..n] :
            /\ IsPermutation(f, n)
            /\ \A i \in 1..n : rows[i].service = svcs[f[i]]
            /\ \A i \in 1..n : \A j \in 1..n :
                 (i < j) =>
                   /\ Rank(FoldedName(rows[i].service))
                        <= Rank(FoldedName(rows[j].service))
                   /\ (FoldedName(rows[i].service)
                         = FoldedName(rows[j].service)) => f[i] < f[j]

C13_Witness ==
  /\ Rendered
  /\ normalizedData.services =
       <<[code |-> "s3", name |-> "s3"],
         [code |-> "ec2", name |-> "Amazon EC2"],
         [code |-> "EC2", name |-> "amazon ec2"]>>
  /\ workbook.services[1].serviceCode = "ec2"
  /\ workbook.services[2].serviceCode = "EC2"
  /\ workbook.services[3].serviceCode = "s3"

ListedCodes == {ServiceCode(normalizedData.services[i]) :
                  i \in 1..Len(normalizedData.services)}
UnknownCodes ==
  UNION {Range(normalizedData.servicesByRegion.entries[i].codes) :
           i \in 1..Len(normalizedData.servicesByRegion.entries)}
  \ ListedCodes
RECURSIVE SumOfLengths(_, _)
SumOfLengths(entries, i) ==
  IF i = 0 THEN 0 ELSE Len(entries[i].codes) + SumOfLengths(entries, i - 1)

\* C15: a code that is in the coverage mapping but not in the services list
\* is counted in the service count of its region and in the mapping total,
\* and has a row in the coverage matrix labelled with the raw code.
C15_UnknownCodesShown ==
  Rendered =>
    \A c \in UnknownCodes :
      /\ \A i \in 1..Len(normalizedData.servicesByRegion.entries) :
           LET e == normalizedData.servicesByRegion.entries[i]
           IN \A j \in 1..Len(workbook.regions) :
                workbook.regions[j].regionCode = e.region =>
                  workbook.regions[j].serviceCount = Len(e.codes)
      /\ workbook.summary.total =
           SumOfLengths(normalizedData.servicesByRegion.entries,
                        Len(normalizedData.servicesByRegion.entries))
      /\ \E i \in 1..Len(workbook.coverage.rows) :
           workbook.coverage.rows[i].serviceName = c

\* the entries of the mapping under a region code
EntriesOf(code) ==
  {i \in 1..Len(normalizedData.servicesByRegion.entries) :
     normalizedData.servicesByRegion.entries[i].region = code}

\* C16: on the Regions sheet the service count of a region is the size of
\* its entry in the coverage mapping, and 0 when the mapping has no entry
\* for it.
C16_RegionServiceCount ==
  Rendered =>
    /\ Len(workbook.regions) = Len(normalizedData.regions)
    /\ \A j \in 1..Len(workbook.regions) :
         LET code == normalizedData.regions[j].code
             row == workbook.regions[j]
         IN /\ row.regionCode = code
            /\ EntriesOf(code) = {} => row.serviceCount = 0
            /\ \A i \in EntriesOf(code) :
                 row.serviceCount =
                   Len(normalizedData.servicesByRegion.entries[i].codes)

C16_Witness ==
  /\ Rendered
  /\ normalizedData.regions = TwoRegions
  /\ normalizedData.servicesByRegion.entries =
       <<[region |-> "us-east-1", codes |-> <<"s3", "ec2", "lambda">>]>>
  /\ workbook.regions[1].serviceCount = 3
  /\ workbook.regions[2].serviceCount = 0

\* the region entries of the primary document, wherever they sit
SourceEntries ==
  bucket.primary.doc.servicesByRegion.byRegion.entries
  \o bucket.primary.doc.servicesByRegion.entries
NormalizedEntryOf(region) ==
  {i \in 1..Len(normalizedData.servicesByRegion.entries) :
     normalizedData.servicesByRegion.entries[i].region = region}

\* C17: after normalization a region whose raw entry is a plain array of
\* codes, or an object wrapping that array under 'services', has exactly
\* that list of codes, whether or not the mapping is nested under byRegion.
C17_EntryShapesAgree ==
  normalizedData.built =>
    \A i \in 1..Len(SourceEntries) :
      SourceEntries[i].shape \in {"array", "wrapped"} =>
        /\ NormalizedEntryOf(SourceEntries[i].region) # {}
        /\ \A k \in NormalizedEntryOf(SourceEntries[i].region) :
             normalizedData.servicesByRegion.entries[k].codes =
               SourceEntries[i].codes

C17_Witness ==
  /\ normalizedData.built
  /\ bucket.primary.doc.servicesByRegion.byRegion.present
  /\ SourceEntries =
       <<RawEntry("us-east-1", "wrapped", <<"s3", "ec2", "lambda">>),
         RawEntry("eu-west-1", "array", <<"s3">>)>>
  /\ normalizedData.servicesByRegion.entries = ExampleEntries

\* a run whose primary document was read, passes validation and has no
\* coverage mapping
NoMappingRun ==
  /\ sourceData.loaded
  /\ IsValidStructure(sourceData)
  /\ ~sourceData.servicesByRegion.present

\* C18: a source document without coverage mapping does not abort the run:
\* normalization does not throw, the Service Coverage sheet is the single
\* centered placeholder message with no matrix, and the run that meets no
\* other error uploads both reports and returns statusCode 200.
C18_MissingMappingNotFatal ==
  NoMappingRun =>
    /\ error.stage # "normalize"
    /\ pc \notin {"readSource", "readServices", "normalize"} =>
         normalizedData.built
    /\ Rendered =>
         /\ workbook.coverage.placeholder
         /\ workbook.coverage.message =
              "Service-by-region mapping not available in source data"
         /\ workbook.coverage.alignment = "center"
         /\ workbook.coverage.headers = << >>
         /\ workbook.coverage.rows = << >>
    /\ (pc = "done" /\ error = NoError) =>
         /\ Rendered
         /\ reportMetadata.uploaded
         /\ response.statusCode = 200

C18_Witness ==
  /\ NoMappingRun
  /\ pc = "done"
  /\ workbook.coverage.placeholder
  /\ store.latest = "current"
  /\ response.statusCode = 200

\* C19: the Summary sheet's 'Service-by-Region Mappings' value is "N/A"
\* when the source document has no coverage mapping, and the total number
\* of (region, service) entries when it has one.
C19_SummaryMappings ==
  (Rendered /\ sourceData.loaded) =>
    IF sourceData.servicesByRegion.present
    THEN /\ ~workbook.summary.na
         /\ workbook.summary.total =
              SumOfLengths(normalizedData.servicesByRegion.entries,
                           Len(normalizedData.servicesByRegion.entries))
    ELSE workbook.summary.na

\* the validation step has run on the parsed primary document
Validated == sourceData.loaded /\ InLog("normalize")

\* C20 as stated: validation aborts the run only when the regions container
\* or the services container is absent, so a document that has both is
\* never rejected.
C20_OnlyContainersRequired ==
  error.stage = "normalize" => (~sourceData.regions \/ ~sourceData.services)

\* C20: validation aborts the run exactly when metadata, the regions
\* container or the services container is absent; a document that has all
\* three is never rejected by validation, whatever else (the coverage
\* mapping) is missing.
C20_ValidationRequiresMetadata ==
  /\ error.stage = "normalize" => Validated
  /\ Validated =>
       (error.stage = "normalize" <=>
          (~sourceData.metadata \/ ~sourceData.regions
             \/ ~sourceData.services))

C20_Witness ==
  /\ Validated
  /\ sourceData.regions /\ sourceData.services /\ ~sourceData.metadata
  /\ error.stage = "normalize"
  /\ pc = "done"
  /\ response.statusCode = 500

\* the kind of a read error, told from the error readSourceData throws
ErrorKind(e) ==
  IF e.message = "Source file not found" THEN "NotFound"
  ELSE IF e.message = "Invalid JSON format in source file"
       THEN "MalformedContent"
       ELSE IF e.message = "Failed to read source data from S3"
            THEN "TransientIOError"
            ELSE "other"

Returned == pc = "done"

\* the payload the handler returned is a 200 with the run metrics or a 500
\* with the error's message and type
StatusPayload ==
  /\ response.statusCode \in {200, 500}
  /\ response.statusCode = 200 =>
       /\ response.metrics.set
       /\ response.metrics = SuccessMetrics
       /\ response.error = ""
  /\ response.statusCode = 500 =>
       /\ error.stage # ""
       /\ response.error = error.message
       /\ response.error # ""
       /\ response.errorType \in {"Error", "UnknownError"}
       /\ ~response.metrics.set

AllRuns == Append(runs, RunRecord)
\* the second in which run i generated its archive name
NamedInSecond(i) == AllRuns[i].namedAt \div 1000
\* the runs that wrote the archive object of the given name, as stored now
WritersOf(name) ==
  {store.archive[j].run : j \in {k \in 1..Len(store.archive) :
                                   store.archive[k].Key = name}}
LatestIsCurrent ==
  (Returned /\ response.statusCode = 200) => store.latest = "current"

\* C22 as stated: the latest key holds the most recent successful run's
\* buffer, and the archive object of every run is still the one that run
\* wrote, whenever the later runs happened.
C22_NeverOverwritten ==
  /\ LatestIsCurrent
  /\ \A i \in 1..Len(AllRuns) :
       AllRuns[i].archived => WritersOf(AllRuns[i].archiveFileName) = {i}

\* C22: the latest key holds the most recent successful run's buffer; every
\* run that uploaded leaves an archive object under its name; runs that
\* generated their names in different seconds wrote different objects, and
\* an archive object is replaced only by a later run that generated its name
\* in the same second.
C22_ArchivePerSecond ==
  /\ LatestIsCurrent
  /\ \A i \in 1..Len(AllRuns) :
       AllRuns[i].archived =>
         \E w \in i..Len(AllRuns) :
           /\ WritersOf(AllRuns[i].archiveFileName) = {w}
           /\ NamedInSecond(w) = NamedInSecond(i)
           /\ AllRuns[w].archived

C22_Witness ==
  /\ Len(runs) = 1
  /\ runs[1].archived
  /\ upload.done["archive"]
  /\ NamedInSecond(1) # NamedInSecond(2)
  /\ WritersOf(runs[1].archiveFileName) = {1}
  /\ WritersOf(upload.archiveFileName) = {2}
  /\ store.latest = "current"

\* the stages of a run, in the order of the handler's Steps
StageOrder ==
  <<"readSource", "readServices", "normalize", "render", "upload_latest",
    "upload_archive", "distribute", "retention", "notify">>

\* C24: the stages of a run start in one fixed order, each after its
\* predecessor completed: both reads before normalization, rendering before
\* the uploads, the mirror copy and the sweep only after both uploads
\* succeeded, the sweep whatever the mirror copy's outcome, and the
\* success/warning notification only after the sweep finished.
C24_StageOrder ==
  /\ Len(log) <= Len(StageOrder)
  /\ log = SubSeq(StageOrder, 1, Len(log))
  /\ InLog("normalize") => reads.primary = "ok" /\ reads.secondary # ""
  /\ InLog("upload_latest") => workbook.built /\ excelBuffer
  /\ InLog("upload_archive") => upload.done["latest"]
  /\ InLog("distribute") =>
       /\ upload.done["latest"] /\ upload.done["archive"]
       /\ store.latest = "current"
       /\ reportMetadata.distributionResult.set
       /\ pc # "sweep_list" => InLog("retention")
  /\ InLog("retention") => reportMetadata.distributionResult.set
  /\ InLog("notify") =>
       /\ sweep.status # ""
       /\ reportMetadata.retentionSet
       /\ Len(notifications) >= 1
  /\ (\E i \in 1..Len(notifications) :
        notifications[i].kind \in {"success", "warning"}) => InLog("notify")

C24_Witness ==
  /\ Returned
  /\ log = StageOrder
  /\ DistributionFailed
  /\ sweep.status = "returned"

\* the texts that denote a date
ParseableDates == {"2016-10-17T12:00:00Z"}

\* C25: on the Regions sheet a region without a launch date shows "N/A" in
\* gray italic, a parseable launch date shows as YYYY-MM-DD, and a launch
\* date that is present but does not parse shows as its raw text.
C25_LaunchDates ==
  Rendered =>
    \A i \in 1..Len(normalizedData.regions) :
      LET text == Field(normalizedData.regions[i], "launchDate")
          row == workbook.regions[i]
      IN /\ text = "" =>
              row.launchDate = "N/A" /\ row.launchDateFont = "gray-italic"
         /\ text \in ParseableDates =>
              row.launchDate = "2016-10-17" /\ row.launchDateFont = ""
         /\ (text # "" /\ text \notin ParseableDates) =>
              row.launchDate = text /\ row.launchDateFont = ""

\* the letters of spreadsheet column notation
Letters ==
  <<"A", "B", "C", "D", "E", "F", "G", "H", "I", "J", "K", "L", "M", "N",
    "O", "P", "Q", "R", "S", "T", "U", "V", "W", "X", "Y", "Z">>
\* the name of the k-th column: A..Z, then AA, AB, ...
ColumnName(k) ==
  IF k <= 26 THEN Letters[k]
  ELSE Letters[(k - 1) \div 26] \o Letters[((k - 1) % 26) + 1]

\* C26: with a non-empty coverage mapping the auto-filter of the Service
\* Coverage sheet runs from A1 to the header cell of the last column, column
\* n+1 for n regions, named in spreadsheet column notation.
C26_FilterSpansWidth ==
  (Rendered /\ ~workbook.coverage.placeholder) =>
    /\ workbook.coverage.autoFilter.from = "A1"
    /\ Len(workbook.coverage.headers) = Len(normalizedData.regions) + 1
    /\ workbook.coverage.autoFilter.to =
         ColumnName(Len(normalizedData.regions) + 1) \o "1"

\* runs i and k both rendered a workbook, from the same canonical model
SameInput(i, k) ==
  /\ AllRuns[i].workbook.built
  /\ AllRuns[k].workbook.built
  /\ AllRuns[i].normalizedData = AllRuns[k].normalizedData
\* the Summary rows that do not show the time of the run
TimelessRows(summary) ==
  [summary EXCEPT !.reportGenerated = "", !.dataTimestamp = ""]

ArchiveWritten ==
  \E j \in 1..Len(store.archive) : store.archive[j].run = Len(runs) + 1

\* C28: the archive upload is attempted only after the latest upload
\* succeeded: an archive object of the current run implies that the latest
\* key holds the current run's buffer; when the latest upload exhausts its
\* retries no archive put is attempted, so a run failed by an upload error
\* leaves nothing new or only the latest key overwritten.
C28_LatestBeforeArchive ==
  /\ upload.puts["archive"] > 0 =>
       upload.done["latest"] /\ store.latest = "current"
  /\ ArchiveWritten =>
       /\ upload.done["archive"]
       /\ store.latest = "current"
       /\ error.stage \notin {"upload_latest", "upload_archive"}
  /\ error.stage = "upload_latest" =>
       /\ upload.puts["latest"] = maxRetries
       /\ upload.puts["archive"] = 0
       /\ ~InLog("upload_archive")
       /\ store.latest = "previous"
  /\ error.stage = "upload_archive" =>
       /\ upload.puts["archive"] = maxRetries
       /\ store.latest = "current"

C28_Witness ==
  /\ Returned
  /\ error.stage = "upload_latest"
  /\ upload.puts["latest"] = maxRetries
  /\ upload.puts["archive"] = 0
  /\ ~ArchiveWritten
  /\ store.latest = "previous"

\* the notification sends the run attempted, by kind
Attempted(kinds) ==
  Cardinality({i \in 1..Len(notifications) : notifications[i].kind \in kinds})

\* C29: no run attempts both a success-or-warning and a failure notification:
\* a run returning 200 attempted exactly one of kind success or warning
\* (warning iff the retention sweep failed) and no failure notification; a
\* run returning 500 attempted exactly one failure notification and no
\* success or warning notification.
C29_OneNotification ==
  /\ (Returned /\ response.statusCode = 200) =>
       /\ Attempted({"success", "warning"}) = 1
       /\ Attempted({"failure"}) = 0
       /\ Attempted({"warning"}) = 1 <=> sweep.status # "returned"
  /\ (Returned /\ response.statusCode = 500) =>
       /\ Attempted({"failure"}) = 1
       /\ Attempted({"success", "warning"}) = 0

\* the keys under the archive prefix, and the objects out of the window
ArchiveKeys == {store.archive[j].Key : j \in 1..Len(store.archive)}
OutOfWindow(obj) == Age(obj) > config.archiveRetentionDays
\* every delete request of the sweep succeeded
AllDeleted ==
  /\ sweep.status = "returned"
  /\ sweep.deleted = Len(sweep.expiredObjects)

====
